---- MODULE Spec2Model ----
(***************************************************************************)
(* A model of glicko.py: the Rating value object, the Glicko and Glicko-2  *)
(* rating systems, the Glicko-2 volatility solver and rate_1vs1.           *)
(*                                                                         *)
(* Python floats are modelled as decimal floating-point numbers with an    *)
(* eight-digit mantissa: a number is a record [m, e] standing for          *)
(* m * 10^e, normalised so that MantMin <= |m| < MantMax (or m = 0, e = 0).*)
(* Every arithmetic operator rounds its result to that precision, as the   *)
(* float operations of the source round to 53 bits.                        *)
(***************************************************************************)
EXTENDS Integers, Sequences, FiniteSets, TLC

(***************************************************************************)
(* Floating-point numbers                                                  *)
(***************************************************************************)
MantMin == 10000000
MantMax == 100000000
\* The least exponent: a result below 10^-324 underflows to zero, as a float does.
MinExponent == -331

Zero == [m |-> 0, e |-> 0]

\* A Python call evaluates each argument once, before the body runs: the
\* operators below receive their arguments by value.
ByValue1(Op(_), x) == CHOOSE r \in {Op(a) : a \in {x}} : TRUE
ByValue2(Op(_, _), x, y) == CHOOSE r \in {Op(a, b) : a \in {x}, b \in {y}} : TRUE

IAbs(n) == IF n < 0 THEN -n ELSE n
ISign(n) == IF n < 0 THEN -1 ELSE 1

RECURSIVE IPow10(_)
IPow10(n) == IF n = 0 THEN 1 ELSE 10 * IPow10(n - 1)

\* Normalise m * 10^e to an eight-digit mantissa, rounding half away from zero.
RECURSIVE Norm(_, _)
Norm(m, e) ==
    ByValue2(LAMBDA mv, ev :
                 IF mv = 0 THEN Zero
                 ELSE IF IAbs(mv) >= MantMax
                      THEN Norm(ISign(mv) * ((IAbs(mv) + 5) \div 10), ev + 1)
                 ELSE IF IAbs(mv) < MantMin THEN Norm(mv * 10, ev - 1)
                 ELSE IF ev < MinExponent THEN Zero
                 ELSE [m |-> mv, e |-> ev],
             m, e)

\* A decimal literal m * 10^e, and an integer.
Dec(m, e) == Norm(m, e)
FromInt(n) == Norm(n, 0)

Neg(x) == ByValue1(LAMBDA v : [m |-> -v.m, e |-> v.e], x)
FAbs(x) == ByValue1(LAMBDA v : [m |-> IAbs(v.m), e |-> v.e], x)

\* x + y: the smaller operand is aligned to the larger one with one guard digit.
AddValues(x, y) ==
    IF x.m = 0 THEN y
    ELSE IF y.m = 0 THEN x
    ELSE LET hi == IF x.e >= y.e THEN x ELSE y
             lo == IF x.e >= y.e THEN y ELSE x
             d == hi.e - lo.e
         IN  IF d > 9 THEN hi
             ELSE Norm(hi.m * 10 + ISign(lo.m) * ((IAbs(lo.m) * 10) \div IPow10(d)),
                       hi.e - 1)

Add(x, y) == ByValue2(AddValues, x, y)
Sub(x, y) == Add(x, Neg(y))

\* floor(a * b / 10^7) for two eight-digit mantissas, without leaving 31 bits.
MulMant(a, b) ==
    LET ah == a \div 10000
        al == a % 10000
        bh == b \div 10000
        bl == b % 10000
    IN  ah * bh * 10 + ((ah * bl + al * bh) + ((al * bl) \div 10000)) \div 1000

MulValues(x, y) ==
    IF x.m = 0 \/ y.m = 0 THEN Zero
    ELSE Norm(ISign(x.m) * ISign(y.m) * MulMant(IAbs(x.m), IAbs(y.m)),
              x.e + y.e + 7)

Mul(x, y) == ByValue2(MulValues, x, y)

\* Long division: n more decimal digits of the quotient acc, remainder r.
RECURSIVE LongDiv(_, _, _, _)
LongDiv(acc, r, b, n) ==
    IF n = 0 THEN acc
    ELSE ByValue2(LAMBDA q, rest : LongDiv(q, rest, b, n - 1),
                  acc * 10 + ((r * 10) \div b), (r * 10) % b)

\* x / y for y # 0 (the callers raise ZeroDivisionError before dividing by 0).
DivValues(x, y) ==
    IF x.m = 0 THEN Zero
    ELSE LET a == IAbs(x.m)
             b == IAbs(y.m)
         IN  Norm(ISign(x.m) * ISign(y.m) * LongDiv(a \div b, a % b, b, 8),
                  x.e - y.e - 8)

Div(x, y) == ByValue2(DivValues, x, y)

Less(x, y) == Sub(x, y).m < 0
Greater(x, y) == Less(y, x)
Square(x) == ByValue1(LAMBDA v : Mul(v, v), x)

One == FromInt(1)
Two == FromInt(2)
Half == Dec(5, -1)

\* x / k for a small integer k > 0, in one step of integer division.
DivSmall(x, k) ==
    ByValue1(LAMBDA v : Norm(ISign(v.m) * ((IAbs(v.m) * 10) \div k), v.e - 1), x)

\* math.sqrt for x > 0: Newton's iteration from the middle of the decade.
RECURSIVE Newton(_, _, _)
Newton(x, s, n) ==
    IF n = 0 THEN s
    ELSE ByValue1(LAMBDA t : Newton(x, DivSmall(Add(t, Div(x, t)), 2), n - 1), s)

SqrtValue(x) ==
    IF x.m = 0 THEN Zero
    ELSE LET ex == x.e + 8
             h == IF ex % 2 = 0 THEN ex \div 2 ELSE (ex - 1) \div 2
         IN  Newton(x, IF ex % 2 = 0 THEN Dec(6, h - 1) ELSE Dec(2, h), 5)

Sqrt(x) == ByValue1(SqrtValue, x)

\* floor(x) as an integer, for |x| < 10^8.
Floor(x) ==
    ByValue1(LAMBDA v : IF v.e >= 0 THEN v.m * IPow10(v.e)
                        ELSE IF v.e < -8 THEN (IF v.m < 0 THEN -1 ELSE 0)
                        ELSE v.m \div IPow10(-v.e),
             x)

Ln10 == Dec(23025851, -7)

\* The Taylor series of exp at r: term is r^(k-1)/(k-1)!, n terms to go.
RECURSIVE ExpSeries(_, _, _, _, _)
ExpSeries(r, term, sum, k, n) ==
    IF n = 0 THEN sum
    ELSE ByValue2(LAMBDA t, acc : ExpSeries(r, t, Add(acc, t), k + 1, n - 1),
                  DivSmall(Mul(term, r), k), sum)

RECURSIVE SquareTimes(_, _)
SquareTimes(x, n) ==
    IF n = 0 THEN x ELSE ByValue1(LAMBDA v : SquareTimes(v, n - 1), Square(x))

\* math.exp: x = n * ln(10) + r with 0 <= r < ln(10);
\* exp(x) = 10^n * exp(r / 4)^4.
ExpValue(x) ==
    IF x.m = 0 THEN One
    ELSE ByValue1(LAMBDA n :
             ByValue1(LAMBDA s :
                 ByValue1(LAMBDA p : Norm(p.m, p.e + n),
                          SquareTimes(ExpSeries(s, One, One, 1, 12), 2)),
                 DivSmall(Sub(x, Mul(FromInt(n), Ln10)), 4)),
             Floor(Div(x, Ln10)))

Exp(x) == ByValue1(ExpValue, x)

\* The series 2 * (z + z^3/3 + z^5/5 + ...) of ln((1 + z) / (1 - z)).
RECURSIVE LnSeries(_, _, _, _, _)
LnSeries(z2, pow, sum, k, n) ==
    IF n = 0 THEN sum
    ELSE ByValue2(LAMBDA p, acc :
                      LnSeries(z2, p, Add(acc, DivSmall(p, k)), k + 2, n - 1),
                  Mul(pow, z2), sum)

Root10 == Dec(31622777, -7)
Root4of10 == Dec(17782794, -7)

\* The series at z = (y - 1) / (y + 1), for 1 <= y < 10^(1/4).
LnReduced(y) ==
    ByValue1(LAMBDA z : ByValue1(LAMBDA z2 : Mul(Two, LnSeries(z2, z, z, 3, 9)),
                                 Square(z)),
             Div(Sub(y, One), Add(y, One)))

\* math.log for x > 0: x = y * 10^k with 1 <= y < 10, y reduced below
\* 10^(1/4) by the roots of ten.
LnValue(x) ==
    LET k == x.e + 7
        y0 == [m |-> x.m, e |-> -7]
        big == ~Less(y0, Root10)
        y1 == IF big THEN Div(y0, Root10) ELSE y0
        mid == ~Less(y1, Root4of10)
        y2 == IF mid THEN Div(y1, Root4of10) ELSE y1
        quarters == 4 * k + (IF big THEN 2 ELSE 0) + (IF mid THEN 1 ELSE 0)
    IN  Add(LnReduced(y2), DivSmall(Mul(FromInt(quarters), Ln10), 4))

Ln(x) == ByValue1(LnValue, x)

(***************************************************************************)
(* Module constants of glicko.py                                           *)
(***************************************************************************)
\* Python's None, and a timestamp of t seconds (both records, as the numbers are).
None == [none |-> TRUE]
Time(t) == [t |-> t]

WIN == One
DRAW == Half
LOSS == Zero

MU == FromInt(1500)
SIGMA == FromInt(350)
VOLATILITY == Dec(6, -2)
TAU == One
EPSILON == Dec(1, -6)
PERIOD == FromInt(86400)
Pi == Dec(31415927, -7)
Q == Div(Ln(FromInt(10)), FromInt(400))
RATIO == Dec(1737178, -4)

(***************************************************************************)
(* Rating and the two rating systems                                       *)
(***************************************************************************)
\* Rating.__init__: the four fields are stored as given, without validation.
Rating(mu, sigma, volatility, rated_at) ==
    [mu |-> mu, sigma |-> sigma, volatility |-> volatility, rated_at |-> rated_at]

\* Glicko.__init__ and Glicko2.__init__
Glicko(mu, sigma, period) ==
    [kind |-> "Glicko", mu |-> mu, sigma |-> sigma, period |-> period,
     volatility |-> None, tau |-> None, epsilon |-> None]

Glicko2(mu, sigma, volatility, tau, epsilon, period) ==
    [kind |-> "Glicko2", mu |-> mu, sigma |-> sigma, period |-> period,
     volatility |-> volatility, tau |-> tau, epsilon |-> epsilon]

\* Glicko.create_rating: the volatility is Rating's default, VOLATILITY.
GlickoCreateRating(self, mu, sigma, rated_at) ==
    ByValue2(LAMBDA muv, sigmav :
                 Rating(IF muv = None THEN self.mu ELSE muv,
                        IF sigmav = None THEN self.sigma ELSE sigmav,
                        VOLATILITY, rated_at),
             mu, sigma)

\* Glicko2.create_rating
Glicko2CreateRating(self, mu, sigma, volatility, rated_at) ==
    ByValue2(LAMBDA muv, sigmav :
                 Rating(IF muv = None THEN self.mu ELSE muv,
                        IF sigmav = None THEN self.sigma ELSE sigmav,
                        IF volatility = None THEN self.volatility ELSE volatility,
                        rated_at),
             mu, sigma)

\* Glicko2.scale_down and Glicko2.scale_up: create_rating is called with three
\* positional arguments, so that rated_at takes its default, None.
scale_down(self, rating, ratio) ==
    Glicko2CreateRating(self, Div(Sub(rating.mu, self.mu), ratio),
                        Div(rating.sigma, ratio), rating.volatility, None)

scale_up(self, rating, ratio) ==
    Glicko2CreateRating(self, Add(Mul(rating.mu, ratio), self.mu),
                        Mul(rating.sigma, ratio), rating.volatility, None)

\* Glicko.g and Glicko2.g
GlickoG(rating) ==
    Div(One, Sqrt(Add(One, Div(Mul(Mul(FromInt(3), Square(Q)), Square(rating.sigma)),
                               Square(Pi)))))

Glicko2G(rating) ==
    Div(One, Sqrt(Add(One, Div(Mul(FromInt(3), Square(rating.sigma)), Square(Pi)))))

g(self, rating) == IF self.kind = "Glicko" THEN GlickoG(rating) ELSE Glicko2G(rating)

\* 10 ** x
Pow10(x) == Exp(Mul(x, Ln(FromInt(10))))

\* Glicko.expect_score and Glicko2.expect_score
GlickoExpectScore(rating, other_rating, gv) ==
    Div(One, Add(One, Pow10(Div(Mul(gv, Sub(rating.mu, other_rating.mu)),
                                FromInt(-400)))))

Glicko2ExpectScore(rating, other_rating, gv) ==
    Div(One, Add(One, Exp(Mul(Neg(gv), Sub(rating.mu, other_rating.mu)))))

expect_score(self, rating, other_rating, gv) ==
    IF self.kind = "Glicko" THEN GlickoExpectScore(rating, other_rating, gv)
    ELSE Glicko2ExpectScore(rating, other_rating, gv)

\* Glicko.quality_1vs1, inherited by Glicko2
quality_1vs1(self, rating1, rating2) ==
    LET expected_score1 == expect_score(self, rating1, rating2, g(self, rating1))
        expected_score2 == expect_score(self, rating2, rating1, g(self, rating2))
        expected_score == Div(Add(expected_score1, expected_score2), Two)
    IN  Mul(Two, Sub(Half, FAbs(Sub(Half, expected_score))))

\* The loop of Glicko.rate (lines 79-84) over the rest of the series:
\* acc holds the running difference and d_square_inv.
RECURSIVE GlickoAccumulate(_, _, _, _)
GlickoAccumulate(self, rating, series, acc) ==
    IF series = <<>> THEN acc
    ELSE ByValue2(LAMBDA gv, sums :
             ByValue1(LAMBDA expected_score :
                 GlickoAccumulate(self, rating, Tail(series),
                     [difference |->
                          Add(sums.difference,
                              Mul(gv, Sub(series[1][1], expected_score))),
                      d_square_inv |->
                          Add(sums.d_square_inv,
                              Mul(Mul(Mul(expected_score, Sub(One, expected_score)),
                                      Square(Q)), Square(gv)))]),
                 GlickoExpectScore(rating, series[1][2], gv)),
             GlickoG(series[1][2]), acc)

\* Glicko.rate with the new mu taken without the factor difference.
GlickoRateDrift(self, rating, series, rated_at) ==
    ByValue2(LAMBDA acc, sq :
        IF sq.m = 0 THEN [exc |-> "ZeroDivisionError", rating |-> None]
        ELSE ByValue1(LAMBDA denom :
                 IF denom.m = 0 THEN [exc |-> "ZeroDivisionError", rating |-> None]
                 ELSE [exc |-> "",
                       rating |-> GlickoCreateRating(self,
                                      Add(rating.mu, Div(Q, denom)),
                                      Sqrt(Div(One, denom)), rated_at)],
                 Add(Div(One, sq), acc.d_square_inv)),
        GlickoAccumulate(self, rating, series,
                         [difference |-> Zero, d_square_inv |-> Zero]),
        Square(rating.sigma))

\* Glicko.rate after the clock default: the exception raised, or the new Rating.
\* series is a sequence of <<actual_score, other_rating>> pairs; acc holds
\* difference and d_square_inv after the loop, sq is rating.sigma ** 2.
GlickoRate(self, rating, series, rated_at) ==
    ByValue2(LAMBDA acc, sq :
        IF sq.m = 0 THEN [exc |-> "ZeroDivisionError", rating |-> None]
        ELSE ByValue1(LAMBDA denom :
                 IF denom.m = 0 THEN [exc |-> "ZeroDivisionError", rating |-> None]
                 ELSE [exc |-> "",
                       rating |-> GlickoCreateRating(self,
                                      Add(rating.mu, Mul(Div(Q, denom), acc.difference)),
                                      Sqrt(Div(One, denom)), rated_at)],
                 Add(Div(One, sq), acc.d_square_inv)),
        GlickoAccumulate(self, rating, series,
                         [difference |-> Zero, d_square_inv |-> Zero]),
        Square(rating.sigma))

\* The loop of Glicko2.rate (lines 184-191) over the rest of the series, whose
\* opponents have been scaled down already.
RECURSIVE Glicko2Accumulate(_, _, _)
Glicko2Accumulate(rating, series, acc) ==
    IF series = <<>> THEN acc
    ELSE ByValue2(LAMBDA gv, sums :
             ByValue1(LAMBDA expected_score :
                 ByValue1(LAMBDA spread :
                     Glicko2Accumulate(rating, Tail(series),
                         [variance_inv |->
                              Add(sums.variance_inv, Mul(Square(gv), spread)),
                          difference |->
                              Add(sums.difference,
                                  Mul(gv, Sub(series[1][1], expected_score))),
                          d_square_inv |->
                              Add(sums.d_square_inv,
                                  Mul(Mul(spread, Square(Q)), Square(gv)))]),
                     Mul(expected_score, Sub(One, expected_score))),
                 Glicko2ExpectScore(rating, series[1][2], gv)),
             Glicko2G(series[1][2]), acc)

\* Lines 181-196 of Glicko2.rate: rating and the opponents of series are on the
\* internal scale.  The exception raised, or the locals at the call of
\* determine_volatility.  acc holds variance_inv, difference and d_square_inv
\* after the loop, sq is rating.sigma ** 2.
Glicko2RateLocals(rating, series) ==
    ByValue2(LAMBDA acc, sq :
        IF acc.variance_inv.m = 0 \/ sq.m = 0 THEN [exc |-> "ZeroDivisionError"]
        ELSE ByValue1(LAMBDA denom :
                 IF denom.m = 0 THEN [exc |-> "ZeroDivisionError"]
                 ELSE [exc |-> "",
                       difference |-> Div(acc.difference, acc.variance_inv),
                       variance |-> Div(One, acc.variance_inv),
                       sigma |-> Sqrt(Div(One, denom))],
                 Add(Div(One, sq), acc.d_square_inv)),
        Glicko2Accumulate(rating, series,
            [variance_inv |-> Zero, difference |-> Zero, d_square_inv |-> Zero]),
        Square(rating.sigma))

\* Lines 202-205 of Glicko2.rate: the interim deviation and the new rating on
\* the internal scale.  sigma is the local variable assigned in line 196.
Glicko2SigmaStar(sigma, volatility) == Sqrt(Add(Square(sigma), Square(volatility)))

Glicko2Update(rating, sigma_star, difference, variance, volatility, rated_at) ==
    ByValue1(LAMBDA new_sigma :
                 Rating(Add(rating.mu,
                            Mul(Square(new_sigma), Div(difference, variance))),
                        new_sigma, volatility, rated_at),
             Div(One, Sqrt(Add(Div(One, Square(sigma_star)), Div(One, variance)))))

(***************************************************************************)
(* Glicko2.determine_volatility                                            *)
(***************************************************************************)
\* The local function f of determine_volatility; sv holds the variables it
\* captures (sigma, variance, difference_squared, alpha) and the system's tau.
f(sv, x) ==
    ByValue2(LAMBDA xv, ex :
                 ByValue1(LAMBDA tmp :
                              Sub(Div(Mul(ex, Sub(sv.difference_squared, tmp)),
                                      Mul(Two, Square(tmp))),
                                  Div(Sub(xv, sv.alpha), Square(sv.tau))),
                          Add(Add(Square(sv.sigma), sv.variance), ex)),
             x, Exp(x))

\* alpha - k * sqrt(tau ** 2)
BracketPoint(sv, k) == Sub(sv.alpha, Mul(FromInt(k), Sqrt(Square(sv.tau))))

(***************************************************************************)
(* Bounds and inputs                                                       *)
(***************************************************************************)
MaxRatings == 2     \* ratings the caller constructs before it calls
MaxSeries == 1      \* games of a series
MaxHeap == 4        \* Rating objects the caller holds

\* The rating systems in scope: Glicko() and Glicko2(), with the defaults.
Systems ==
    { Glicko(MU, SIGMA, PERIOD),
      Glicko2(MU, SIGMA, VOLATILITY, TAU, EPSILON, PERIOD) }

\* Arguments of Rating(mu, sigma, volatility, rated_at).
RatingArgs ==
    { <<FromInt(1500), FromInt(200), VOLATILITY, None>>,
      <<FromInt(1400), FromInt(30), VOLATILITY, Time(1)>>,
      <<FromInt(1500), Zero, VOLATILITY, None>> }

Scores == {WIN, LOSS}
RatedAtArgs == {None, Time(7)}
\* What utctime() returns.
ClockTimes == {Time(100)}

VARIABLES
    sys,      \* the rating system in scope (self)
    heap,     \* the Rating objects the caller holds, by identity 1..Len(heap)
    call,     \* the call in progress, or the last call and its outcome
    frame,    \* the local variables of Glicko2.rate
    solver,   \* the local variables of determine_volatility
    pc        \* where the call in progress stands

vars == <<sys, heap, call, frame, solver, pc>>

NoCall ==
    [op |-> "none", status |-> "none", exc |-> "", rating |-> 0, series |-> <<>>,
     rated_at |-> None, clock |-> None, result |-> 0, value |-> None]

NoFrame ==
    [rating |-> None, rated_at |-> None, difference |-> Zero, variance |-> Zero,
     sigma |-> Zero, volatility |-> Zero, sigma_star |-> Zero]

NoSolver ==
    [sigma |-> Zero, volatility |-> Zero, difference |-> Zero, variance |-> Zero,
     tau |-> Zero, epsilon |-> Zero, difference_squared |-> Zero, alpha |-> Zero,
     a |-> Zero, b |-> Zero, f_a |-> Zero, f_b |-> Zero, k |-> 0, result |-> Zero]

Init ==
    /\ sys \in Systems
    /\ heap = <<>>
    /\ call = NoCall
    /\ frame = NoFrame
    /\ solver = NoSolver
    /\ pc = "idle"

Ids == 1..Len(heap)

RECURSIVE SeqsUpTo(_, _)
SeqsUpTo(S, n) ==
    IF n = 0 THEN {<<>>}
    ELSE LET shorter == SeqsUpTo(S, n - 1)
         IN  shorter \cup {Append(q, x) : q \in shorter, x \in S}

\* The series a caller can pass: <<actual_score, identity of the opponent>>.
SeriesArgs == SeqsUpTo(Scores \X Ids, MaxSeries)

\* The series with the opponents' Rating objects in place of their identities.
Deref(h, series) == [i \in 1..Len(series) |-> <<series[i][1], h[series[i][2]]>>]

\* rated_at as lines 75-76 and 171-172 set it.
RatedAt(rated_at, clock) == IF rated_at = None THEN clock ELSE rated_at

\* The Rating is written over the object made last, not made anew.
AllocOver(h, rating) ==
    IF h = <<>> THEN <<rating>> ELSE [h EXCEPT ![Len(h)] = rating]

\* A new Rating object on the heap.
Alloc(h, rating) == Append(h, rating)

Returned(c, id) == [c EXCEPT !.status = "returned", !.result = id]
Raised(c, exc) == [c EXCEPT !.status = "raised", !.exc = exc]

\* The caller has constructed its ratings, and it has made no call yet.
Fresh == Len(heap) = MaxRatings /\ call.op = "none"
\* The caller has constructed its ratings, made no call but of the scale
\* transforms, and has room for the Rating a transform returns.
Scaling ==
    /\ Len(heap) >= MaxRatings /\ Len(heap) < MaxHeap
    /\ call.op \in {"none", "scale_down", "scale_up"}

\* Rating(mu, sigma, volatility, rated_at)
NewRating ==
    /\ pc = "idle" /\ call.op = "none" /\ Len(heap) < MaxRatings
    /\ \E args \in RatingArgs :
          heap' = Alloc(heap, Rating(args[1], args[2], args[3], args[4]))
    /\ UNCHANGED <<sys, call, frame, solver, pc>>

\* self.create_rating() with every argument omitted
CreateRating ==
    /\ pc = "idle" /\ call.op = "none" /\ Len(heap) < MaxRatings
    /\ heap' = Alloc(heap, IF sys.kind = "Glicko"
                           THEN GlickoCreateRating(sys, None, None, None)
                           ELSE Glicko2CreateRating(sys, None, None, None, None))
    /\ UNCHANGED <<sys, call, frame, solver, pc>>

\* The record of a call of rate.
RateCall(rating, series, rated_at, clock) ==
    [NoCall EXCEPT !.op = "rate", !.status = "running", !.rating = rating,
                   !.series = series, !.rated_at = rated_at,
                   !.clock = IF rated_at = None THEN clock ELSE None]

\* Glicko.rate(rating, series, rated_at)
Rate ==
    /\ pc = "idle" /\ sys.kind = "Glicko" /\ Fresh
    /\ \E rating \in Ids, series \in SeriesArgs, rated_at \in RatedAtArgs,
          clock \in ClockTimes :
          \E r \in {GlickoRate(sys, heap[rating], Deref(heap, series),
                                RatedAt(rated_at, clock))} :
             LET c == RateCall(rating, series, rated_at, clock)
             IN  IF r.exc # ""
                 THEN /\ call' = Raised(c, r.exc)
                      /\ heap' = heap
                 ELSE /\ heap' = Alloc(heap, r.rating)
                      /\ call' = Returned(c, Len(heap) + 1)
    /\ UNCHANGED <<sys, frame, solver, pc>>

\* self.quality_1vs1(rating1, rating2)
Quality ==
    /\ pc = "idle" /\ Fresh
    /\ \E rating1 \in Ids, rating2 \in Ids :
          call' = [NoCall EXCEPT !.op = "quality_1vs1", !.status = "returned",
                                 !.rating = rating1,
                                 !.series = <<<<None, rating2>>>>,
                                 !.value = quality_1vs1(sys, heap[rating1], heap[rating2])]
    /\ UNCHANGED <<sys, heap, frame, solver, pc>>

\* Glicko2.scale_down(rating) and Glicko2.scale_up(rating), with the default ratio
ScaleDown ==
    /\ pc = "idle" /\ sys.kind = "Glicko2" /\ Scaling
    /\ \E rating \in Ids :
          /\ heap' = Alloc(heap, scale_down(sys, heap[rating], RATIO))
          /\ call' = [NoCall EXCEPT !.op = "scale_down", !.status = "returned",
                                    !.rating = rating, !.result = Len(heap) + 1]
    /\ UNCHANGED <<sys, frame, solver, pc>>

ScaleUp ==
    /\ pc = "idle" /\ sys.kind = "Glicko2" /\ Scaling
    /\ \E rating \in Ids :
          /\ heap' = Alloc(heap, scale_up(sys, heap[rating], RATIO))
          /\ call' = [NoCall EXCEPT !.op = "scale_up", !.status = "returned",
                                    !.rating = rating, !.result = Len(heap) + 1]
    /\ UNCHANGED <<sys, frame, solver, pc>>

\* rate_1vs1(rating1, rating2, drawn): the module has no global named rate, so
\* that evaluating the first element of the tuple raises NameError.
Rate1vs1 ==
    /\ pc = "idle" /\ Fresh
    /\ \E rating1 \in Ids, rating2 \in Ids, drawn \in BOOLEAN :
          call' = Raised([NoCall EXCEPT !.op = "rate_1vs1", !.status = "running",
                                        !.rating = rating1,
                                        !.series = <<<<IF drawn THEN DRAW ELSE WIN,
                                                       rating2>>>>],
                         "NameError")
    /\ UNCHANGED <<sys, heap, frame, solver, pc>>

\* Glicko2.rate(rating, series, rated_at), lines 171-199: up to the call of
\* determine_volatility.  The scaled-down copies of the rating and of the
\* opponents are new objects that only the locals of rate refer to.
Rate2Begin ==
    /\ pc = "idle" /\ sys.kind = "Glicko2" /\ Fresh
    /\ \E rating \in Ids, series \in SeriesArgs, rated_at \in RatedAtArgs,
          clock \in ClockTimes :
          \E scaled_rating \in {scale_down(sys, heap[rating], RATIO)},
             scaled \in {[i \in 1..Len(series) |->
                            <<series[i][1], scale_down(sys, heap[series[i][2]], RATIO)>>]} :
          \E loc \in {Glicko2RateLocals(scaled_rating, scaled)} :
          LET c == RateCall(rating, series, rated_at, clock)
          IN  IF loc.exc # ""
              THEN /\ call' = Raised(c, loc.exc)
                   /\ UNCHANGED <<frame, solver, pc>>
              ELSE /\ call' = c
                   /\ frame' = [NoFrame EXCEPT !.rating = scaled_rating,
                                    !.rated_at = RatedAt(rated_at, clock),
                                    !.difference = loc.difference,
                                    !.variance = loc.variance,
                                    !.sigma = loc.sigma]
                   /\ solver' = [NoSolver EXCEPT !.sigma = scaled_rating.sigma,
                                    !.volatility = scaled_rating.volatility,
                                    !.difference = loc.difference,
                                    !.variance = loc.variance,
                                    !.tau = sys.tau, !.epsilon = sys.epsilon]
                   /\ pc' = "enter"
    /\ UNCHANGED <<sys, heap>>

\* An exception leaves determine_volatility and its caller.
SolverRaise(exc) ==
    /\ call' = Raised(call, exc)
    /\ pc' = "idle"
    /\ UNCHANGED <<sys, heap, frame, solver>>

\* determine_volatility, lines 134-147 (and 152 when the bracket is found at
\* once): alpha, and the initial values of the iteration.
SolverEnter ==
    /\ pc = "enter"
    /\ \E vsq \in {Square(solver.volatility)}, d2 \in {Square(solver.difference)} :
       IF vsq.m <= 0 THEN SolverRaise("ValueError")
       ELSE
       \E alpha \in {Ln(vsq)},
          arg \in {Sub(Sub(d2, Square(solver.sigma)), solver.variance)} :
       LET sv == [solver EXCEPT !.difference_squared = d2, !.alpha = alpha, !.a = alpha]
       IN  IF Greater(d2, Add(Square(solver.sigma), solver.variance))
           THEN IF arg.m <= 0 THEN SolverRaise("ValueError")
                ELSE /\ \E b \in {Ln(arg)} :
                          solver' = [sv EXCEPT !.b = b, !.f_a = f(sv, alpha),
                                              !.f_b = f(sv, b)]
                     /\ pc' = "illinois"
                     /\ UNCHANGED <<sys, heap, call, frame>>
           ELSE /\ solver' = [sv EXCEPT !.k = 1]
                /\ pc' = "bracket"
                /\ UNCHANGED <<sys, heap, call, frame>>

\* One test of the loop of lines 148-149, and lines 150-152 when it fails.
BracketStep ==
    /\ pc = "bracket"
    /\ \E b \in {BracketPoint(solver, solver.k)} :
       \E f_b \in {f(solver, b)} :
           IF Less(f_b, Zero)
           THEN /\ solver' = [solver EXCEPT !.k = solver.k + 1]
                /\ pc' = pc
           ELSE /\ solver' = [solver EXCEPT !.b = b, !.f_a = f(solver, solver.a),
                                            !.f_b = f_b]
                /\ pc' = "illinois"
    /\ UNCHANGED <<sys, heap, call, frame>>

\* |b - a| > epsilon, the test of the loop of line 159
Apart(sv) == Greater(FAbs(Sub(sv.b, sv.a)), sv.epsilon)

\* One pass of the loop of lines 159-166.
IllinoisStep ==
    /\ pc = "illinois" /\ Apart(solver)
    /\ LET a == solver.a
           b == solver.b
           f_a == solver.f_a
           f_b == solver.f_b
           den == Sub(f_b, f_a)
       IN  IF den.m = 0 THEN SolverRaise("ZeroDivisionError")
           ELSE \E c \in {Add(a, Div(Mul(Sub(a, b), f_a), den))} :
                \E f_c \in {f(solver, c)} :
                /\ solver' = IF Less(Mul(f_c, f_b), Zero)
                             THEN [solver EXCEPT !.a = b, !.f_a = f_b,
                                                 !.b = c, !.f_b = f_c]
                             ELSE [solver EXCEPT !.f_a = Div(f_a, Two),
                                                 !.b = c, !.f_b = f_c]
                /\ UNCHANGED <<sys, heap, call, frame, pc>>

\* Line 168: the loop has ended, exp(1) ** (a / 2) is returned.
SolverReturn ==
    /\ pc = "illinois" /\ ~Apart(solver)
    /\ solver' = [solver EXCEPT !.result = Exp(Div(solver.a, Two))]
    /\ pc' = "solved"
    /\ UNCHANGED <<sys, heap, call, frame>>

\* Glicko2.rate, lines 199-207: from the return of determine_volatility.
Rate2Finish ==
    /\ pc = "solved" /\ call.op = "rate"
    /\ \E volatility \in {solver.result} :
       \E sigma_star \in {Glicko2SigmaStar(frame.sigma, volatility)} :
       \E new \in {Glicko2Update(frame.rating, sigma_star, frame.difference,
                                 frame.variance, volatility, frame.rated_at)} :
           /\ heap' = Alloc(heap, scale_up(sys, new, RATIO))
           /\ frame' = [frame EXCEPT !.volatility = volatility,
                                     !.sigma_star = sigma_star]
           /\ call' = Returned(call, Len(heap) + 1)
    /\ pc' = "idle"
    /\ UNCHANGED <<sys, solver>>

Next ==
    \/ NewRating \/ CreateRating \/ Rate \/ Quality \/ ScaleDown \/ ScaleUp
    \/ Rate1vs1 \/ Rate2Begin \/ SolverEnter \/ BracketStep \/ IllinoisStep
    \/ SolverReturn \/ Rate2Finish

Spec == Init /\ [][Next]_vars
(***************************************************************************)
(* determine_volatility called on its own                                  *)
(***************************************************************************)
\* Glicko-2 systems with tau in {0.5, 1.0} and epsilon in {1e-6, 1e-9}.
SolverSystems ==
    { Glicko2(MU, SIGMA, VOLATILITY, tau, epsilon, PERIOD) :
          tau \in {Half, One}, epsilon \in {EPSILON, Dec(1, -9)} }

\* The rating on the internal scale, the difference and the variance passed.
SolverSigmas == {Div(FromInt(200), RATIO), Div(FromInt(350), RATIO)}
SolverDifferences == {Dec(-4834, -4), Zero, FromInt(3)}
SolverVariances == {Dec(17785, -4), Dec(56, -1)}

SolverInit ==
    /\ sys \in SolverSystems
    /\ heap = <<>>
    /\ call = [NoCall EXCEPT !.op = "determine_volatility", !.status = "running"]
    /\ frame = NoFrame
    /\ \E sigma \in SolverSigmas, difference \in SolverDifferences,
          variance \in SolverVariances :
          solver = [NoSolver EXCEPT !.sigma = sigma, !.volatility = VOLATILITY,
                                    !.difference = difference, !.variance = variance,
                                    !.tau = sys.tau, !.epsilon = sys.epsilon]
    /\ pc = "enter"

SolverNext == SolverEnter \/ BracketStep \/ IllinoisStep \/ SolverReturn

SolverSpec == SolverInit /\ [][SolverNext]_vars

\* The call runs on: a step that can be taken is taken.
FairSolverSpec == SolverSpec /\ WF_vars(SolverNext)

(***************************************************************************)
(* quality_1vs1 called on a player and a choice of opponents               *)
(***************************************************************************)
QualityMus == {FromInt(1500), FromInt(1900), FromInt(3100)}
QualitySigmas == {FromInt(30), FromInt(350)}

\* Rating(mu, sigma): the player first, then MaxRatings opponents.
QualityRating ==
    /\ pc = "idle" /\ call.op = "none" /\ Len(heap) <= MaxRatings
    /\ \E mu \in QualityMus, sigma \in QualitySigmas :
          heap' = Alloc(heap, Rating(mu, sigma, VOLATILITY, None))
    /\ UNCHANGED <<sys, call, frame, solver, pc>>

\* self.quality_1vs1(player, rating2), for the player and any of the ratings
QualityCall ==
    /\ pc = "idle" /\ Len(heap) = MaxRatings + 1
    /\ \E rating2 \in Ids :
          call' = [NoCall EXCEPT !.op = "quality_1vs1", !.status = "returned",
                                 !.rating = 1,
                                 !.series = <<<<None, rating2>>>>,
                                 !.value = quality_1vs1(sys, heap[1], heap[rating2])]
    /\ UNCHANGED <<sys, heap, frame, solver, pc>>

QualityNext == QualityRating \/ QualityCall

QualitySpec == Init /\ [][QualityNext]_vars

(***************************************************************************)
(* Properties                                                              *)
(***************************************************************************)
Tolerance == Dec(1, -6)

\* x and y agree up to the relative tolerance.
Close(x, y) == ~Greater(FAbs(Sub(x, y)), Mul(Tolerance, FAbs(y)))

Positive(x) == x.m > 0

RateDone(kind) == call.op = "rate" /\ sys.kind = kind /\ call.status # "running"
RateReturned(kind) == call.op = "rate" /\ sys.kind = kind /\ call.status = "returned"

\* C1: the Rating that Glicko2.rate returns for a non-empty series carries the
\* rated_at argument, or the clock's time when the argument is omitted.
C1_RatedAtKept ==
    RateReturned("Glicko2") =>
        heap[call.result].rated_at = RatedAt(call.rated_at, call.clock)

\* C2: rate_1vs1 completes without error and returns the pair of ratings.
C2_Rate1vs1Returns ==
    call.op = "rate_1vs1" => call.status = "returned" /\ call.exc = ""

\* C3: Glicko2.rate with an empty series fails with EmptySeriesError, never
\* with a numeric exception, and never returns.
C3_EmptySeriesError ==
    RateDone("Glicko2") /\ call.series = <<>> =>
        call.status = "raised" /\ call.exc = "EmptySeriesError"

\* C4: for a rating with sigma > 0, Glicko.rate with an empty series returns a
\* Rating with the same mu and with sigma = sqrt(1 / (1 / sigma^2)), which is
\* the prior sigma up to rounding.
C4_GlickoEmptySeries ==
    RateDone("Glicko") /\ call.series = <<>> /\ Positive(heap[call.rating].sigma) =>
        /\ call.status = "returned"
        /\ heap[call.result].mu = heap[call.rating].mu
        /\ heap[call.result].sigma =
               Sqrt(Div(One, Div(One, Square(heap[call.rating].sigma))))
        /\ Close(heap[call.result].sigma, heap[call.rating].sigma)

C4_Witness ==
    /\ RateReturned("Glicko") /\ call.series = <<>>
    /\ Positive(heap[call.rating].sigma)

\* C5: determine_volatility always terminates: it returns, or it raises.
C5_Terminates == <>(pc = "solved" \/ pc = "idle")

\* The opponent of a call of quality_1vs1, and the gap |r1.mu - r2.mu|.
Opponent(c) == heap[c.series[1][2]]
Gap(c) == FAbs(Sub(heap[c.rating].mu, Opponent(c).mu))

\* A call of quality_1vs1 follows a call for the same player and an opponent
\* with the same sigma at a gap that was not larger.
C8_GapGrows ==
    /\ call.op = "quality_1vs1" /\ call'.op = "quality_1vs1"
    /\ call'.rating = call.rating
    /\ Opponent(call').sigma = Opponent(call).sigma
    /\ ~Less(Gap(call'), Gap(call))

C8_Step ==
    /\ (call'.op = "quality_1vs1" /\ Gap(call') = Zero) => Close(call'.value, One)
    /\ C8_GapGrows => ~Greater(call'.value, Add(call.value, Tolerance))

\* C8: quality_1vs1 returns 1 when the two ratings have the same mu (both
\* expected scores are 0.5), and for fixed sigmas a call at a larger gap never
\* returns a higher quality than the call before it.
C8_QualityFallsWithGap == [][C8_Step]_vars

\* C6: no step changes a Rating that exists or the system's configuration, and
\* the Rating that rate returns is a new object, none of its arguments.
C6_Frame ==
    /\ \A i \in 1..Len(heap) : Len(heap') >= i /\ heap'[i] = heap[i]
    /\ sys' = sys
    /\ (call' # call /\ call'.op = "rate" /\ call'.status = "returned") =>
           /\ call'.result > Len(heap)
           /\ call'.result \in 1..Len(heap')
           /\ call'.result # call'.rating
           /\ \A i \in 1..Len(call'.series) : call'.result # call'.series[i][2]

C6_NoMutation == [][C6_Frame]_vars

\* A Glicko-2 rate has returned for a player rated against itself.
C6_Witness ==
    /\ RateReturned("Glicko2") /\ call.series # <<>>
    /\ call.series[1][2] = call.rating

SameRating(r1, r2) ==
    /\ Close(r1.mu, r2.mu)
    /\ Close(r1.sigma, r2.sigma)
    /\ r1.volatility = r2.volatility
    /\ r1.rated_at = r2.rated_at

\* C7: scale_up(scale_down(r)) equals r field by field: mu and sigma within
\* tolerance, volatility and rated_at unchanged.
C7_RoundTrip ==
    (call.op = "scale_up" /\ call.status = "returned") =>
        \A i \in Ids :
            heap[call.rating] = scale_down(sys, heap[i], RATIO) =>
                SameRating(heap[call.result], heap[i])

\* C9: every Rating that exists has sigma > 0.
C9_SigmaPositive == \A i \in Ids : Positive(heap[i].sigma)

\* C10: in Glicko2.rate, sigma_star^2 = prior_sigma^2 + volatility^2, where
\* prior_sigma is the sigma of the scaled-down input rating.
C10_SigmaStarFromPrior ==
    RateReturned("Glicko2") =>
        Close(Square(frame.sigma_star),
              Add(Square(frame.rating.sigma), Square(frame.volatility)))

====
